---- MODULE Spec2Model ----
(***************************************************************************)
(* L.Routing.Control (src/src/control.js): the request coordination and    *)
(* state synchronisation of the routing control.  The control's fields are *)
(* the variables; each event handler of the control is one action.  The    *)
(* router, the plan, the itinerary, the waypoints layer and the map are    *)
(* the control's environment: the router answers each request once, in any *)
(* order; the user drags, changes waypoints, zooms and selects routes.     *)
(***************************************************************************)
EXTENDS Integers, Sequences, FiniteSets, Bags, TLC

\* ------------------------------------------------------------------ bounds
MaxRequests == 3      \* calls of route() in one behaviour
MaxRoutes == 2        \* routes in one response of the router
MaxZoom == 2          \* zoom levels of the map: 1..MaxZoom
MapSizeX == 10        \* map.getSize().x
MapSizeY == 10        \* map.getSize().y

\* ------------------------------------------------------------------ values
NoLatLng == <<>>                       \* a waypoint whose latLng is undefined
NoWaypoints == <<>>                    \* the closure variable waypoints before the first drag
NoLine == [route |-> <<0, 0>>, coordinates |-> <<0, 0>>, isAlternative |-> FALSE]
NoZoom == 0                            \* undefined (_routeZoom unset, options.z without a map)
NoRoute == <<0, 0>>

\* Layer points of the waypoints used: the origin, a point exactly one fifth
\* of the map width away, one just beyond a fifth in x, one just beyond a
\* fifth in y, and two points outside the viewport, far from each other.
PO == <<0, 0>>
PX2 == <<MapSizeX \div 5, 0>>
PX3 == <<(MapSizeX \div 5) + 1, 0>>
PY3 == <<0, (MapSizeY \div 5) + 1>>
PFar == <<3 * MapSizeX, 3 * MapSizeY>>
PFar2 == <<3 * MapSizeX, 4 * MapSizeY>>
\* Top-left corner of the map in layer points.
Viewport == <<0, 0>>

\* The waypoint lists the plan and the drag events take.
PlanChoices ==
  { <<PO, PX2>>,             \* within a fifth of the map, visible
    <<PO, PY3>>,             \* beyond a fifth of the map in y, visible
    <<PFar, PFar2>>,         \* beyond a fifth of the map, none in the viewport
    <<PO, NoLatLng, PX3>> }  \* not ready; the others visible and beyond a fifth
DragChoices == { <<PO, PX3>>, <<PO, PFar>> }

\* The default options (lines 31-50) with an itinerary, and three
\* configurations that together take every option's other values.
DefaultOptions ==
  [ autoRoute |-> TRUE, fitSelectedRoutes |-> "smart", showAlternatives |-> TRUE,
    waypointMode |-> "connect", itinerary |-> TRUE ]
OptionChoices ==
  { DefaultOptions,
    [DefaultOptions EXCEPT !.autoRoute = FALSE, !.itinerary = FALSE],
    [DefaultOptions EXCEPT !.fitSelectedRoutes = "true", !.waypointMode = "snap"],
    [DefaultOptions EXCEPT !.fitSelectedRoutes = "false", !.showAlternatives = FALSE] }

VARIABLES
  options,        \* this.options, and whether this._itinerary exists
  pc,             \* "new" (fields set), "constructed" (initialize done), "added" (onAdd done)
  requestCount,   \* this._requestCount
  routes,         \* this._routes (a sequence of routes)
  routesDefined,  \* whether this._routes has been assigned
  line,           \* this._line, NoLine when undefined
  alternatives,   \* this._alternatives
  mapLayers,      \* the route lines that are layers of the map (a bag)
  routeZoom,      \* this._routeZoom
  itinAlts,       \* the routes the itinerary shows
  planWps,        \* this._plan.getWaypoints()
  listening,      \* whether _onWaypointsChanged is a listener of the plan's waypointschanged
  mapZoom,        \* this._map.getZoom()
  timer,          \* closure variable timer of _setupRouteDragging (0: falsy)
  waypoints,      \* closure variable waypoints of _setupRouteDragging
  timeouts,       \* the handles of the scheduled, not yet fired or cleared timeouts
  pending,        \* the requests the router has not answered yet
  fired,          \* events fired and calls made by the last handler, in order
  op,             \* the last handler that ran
  lastDrag,       \* history: waypoints of the most recent waypointdrag event
  firstDrag,      \* history: waypoints of the waypointdrag event that set the pending timer
  quiet,          \* history: full requests since whose issue no waypoint change or drag occurred
  dragEnd         \* history: the full request of the last waypointdragend (the geometry-only
                  \* requests then outstanding being drag requests), while only responses follow

vars == <<options, pc, listening, requestCount, routes, routesDefined, line, alternatives,
          mapLayers, routeZoom, itinAlts, planWps, mapZoom, timer,
          waypoints, timeouts, pending, fired, op, lastDrag, firstDrag, quiet, dragEnd>>

\* ------------------------------------------------- the environment's parts
\* Plan.isReady(): every waypoint has a latLng.
isReady(wps) == \A i \in 1..Len(wps) : wps[i] # NoLatLng

\* map.getBounds().contains(latLng), in layer points.
Contains(p) ==
  /\ Viewport[1] <= p[1] /\ p[1] <= Viewport[1] + MapSizeX
  /\ Viewport[2] <= p[2] /\ p[2] <= Viewport[2] + MapSizeY

\* The router's successful answer to request req with n routes: fresh route
\* objects, identified by the request and their index.  coordinates stands
\* for the geometry of the route: its coordinates, inputWaypoints and
\* waypointIndices, which are assigned together.
Response(req, n) ==
  [i \in 1..n |-> [id |-> <<req.ts, i>>, coordinates |-> <<req.ts, i>>,
                   waypoints |-> req.wps]]

\* An event fired by the control, a call of route(), or a call the control
\* makes on the router or the map.
Ev(type, wps, route) == [type |-> type, waypoints |-> wps, route |-> route]

\* --------------------------------------------------- the control's methods
\* The control's fields as a record, at the start of a handler.
S == [requestCount |-> requestCount, routes |-> routes,
      routesDefined |-> routesDefined, line |-> line,
      alternatives |-> alternatives, mapLayers |-> mapLayers,
      routeZoom |-> routeZoom, itinAlts |-> itinAlts, planWps |-> planWps,
      listening |-> listening,
      pending |-> pending, fired |-> <<>>, threw |-> FALSE]

fire(s, e) == [s EXCEPT !.fired = Append(@, e)]

RECURSIVE removeLayers(_, _)
removeLayers(layers, ls) ==
  IF ls = <<>> THEN layers
  ELSE removeLayers(layers (-) SetToBag({Head(ls)}), Tail(ls))

RECURSIVE addLayers(_, _)
addLayers(layers, ls) ==
  IF ls = <<>> THEN layers
  ELSE addLayers(layers (+) SetToBag({Head(ls)}), Tail(ls))

\* Mutant: the alternative lines are forgotten but stay on the map.
clearLines_LeavesAlternatives(s) ==
  LET s1 == IF s.line # NoLine
            THEN [s EXCEPT !.mapLayers = removeLayers(@, <<s.line>>),
                           !.line = NoLine]
            ELSE s
  IN [s1 EXCEPT !.alternatives = <<>>]

clearLines(s) ==
  LET s1 == IF s.line # NoLine
            THEN [s EXCEPT !.mapLayers = removeLayers(@, <<s.line>>),
                           !.line = NoLine]
            ELSE s
  IN IF Len(s1.alternatives) > 0
     THEN [s1 EXCEPT !.mapLayers = removeLayers(@, s1.alternatives),
                     !.alternatives = <<>>]
     ELSE s1

routeLine(route, isAlt) ==
  [route |-> route.id, coordinates |-> route.coordinates, isAlternative |-> isAlt]

\* _updateLines({route: route, alternatives: alts}); hasAlts is whether
\* routes.alternatives is given.
updateLines(s, route, alts, hasAlts) ==
  LET s1 == clearLines(s)
      altLines == IF hasAlts
                  THEN [i \in 1..Len(alts) |-> routeLine(alts[i], TRUE)]
                  ELSE <<>>
      main == routeLine(route, FALSE)
  IN [s1 EXCEPT !.alternatives = altLines,
                !.line = main,
                !.mapLayers = addLayers(addLayers(@, altLines), <<main>>)]

RECURSIVE MinOf(_, _, _)
MinOf(wps, c, i) ==
  IF i = Len(wps) THEN wps[i][c]
  ELSE LET m == MinOf(wps, c, i + 1) IN IF wps[i][c] < m THEN wps[i][c] ELSE m
RECURSIVE MaxOf(_, _, _)
MaxOf(wps, c, i) ==
  IF i = Len(wps) THEN wps[i][c]
  ELSE LET m == MaxOf(wps, c, i + 1) IN IF wps[i][c] > m THEN wps[i][c] ELSE m

\* Mutant: the waypoints count as spread out only if they are in both
\* directions.
waypointsVisible_BothDirections(wps) ==
  IF Len(wps) = 0 \/ ~isReady(wps) THEN FALSE
  ELSE LET bx == MaxOf(wps, 1, 1) - MinOf(wps, 1, 1)
           by == MaxOf(wps, 2, 1) - MinOf(wps, 2, 1)
       IN (5 * bx > MapSizeX /\ 5 * by > MapSizeY)
          /\ \E i \in 1..Len(wps) : Contains(wps[i])

waypointsInViewport(wps) ==
  \E i \in 1..Len(wps) : Contains(wps[i])

\* _waypointsVisible(): projecting a waypoint without latLng, or taking the
\* size of the bounds of no waypoint, throws, and the catch returns false.
waypointsVisible(wps) ==
  IF Len(wps) = 0 \/ ~isReady(wps) THEN FALSE
  ELSE LET bx == MaxOf(wps, 1, 1) - MinOf(wps, 1, 1)
           by == MaxOf(wps, 2, 1) - MinOf(wps, 2, 1)
       IN (5 * bx > MapSizeX \/ 5 * by > MapSizeY) /\ waypointsInViewport(wps)

fitBounds(s) ==
  \/ (options.fitSelectedRoutes = "smart" /\ ~waypointsVisible(s.planWps))
  \/ (options.fitSelectedRoutes # "smart" /\ options.fitSelectedRoutes = "true")

\* Mutant: the selected route stays among the alternatives.
others_KeepsSelected(rs, route) == rs

RECURSIVE others(_, _)
others(rs, route) ==
  IF rs = <<>> THEN <<>>
  ELSE IF Head(rs).id # route.id THEN <<Head(rs)>> \o others(Tail(rs), route)
       ELSE others(Tail(rs), route)

\* this._map && this._map.getZoom()
getZoom == IF pc = "added" THEN mapZoom ELSE NoZoom

\* Mutant: the counter moves only when a request is sent.
route_CountsSentOnly(s, wps, geometryOnly, cb, z) ==
  LET ts == s.requestCount + 1
      s1 == fire(s, Ev(IF geometryOnly THEN "route.geometryOnly" ELSE "route",
                       wps, NoRoute))
      w == IF wps # NoWaypoints THEN wps ELSE s.planWps
      req == [ts |-> ts, wps |-> w, callback |-> cb, z |-> z,
              geometryOnly |-> geometryOnly, optWaypoints |-> wps]
  IN IF isReady(s.planWps)
     THEN [fire(fire(s1, Ev("routingstart", w, NoRoute)),
                Ev("router.route", w, <<ts, 0>>))
             EXCEPT !.pending = @ \cup {req}, !.requestCount = ts]
     ELSE s1

\* route(options): wps is options.waypoints (NoWaypoints when absent), cb
\* names options.callback ("default" when absent), z is what the map gives
\* as its zoom during the call.
route(s, wps, geometryOnly, cb, z) ==
  LET ts == s.requestCount + 1
      s1 == [fire(s, Ev(IF geometryOnly THEN "route.geometryOnly" ELSE "route",
                        wps, NoRoute))
               EXCEPT !.requestCount = ts]
      w == IF wps # NoWaypoints THEN wps ELSE s.planWps
      req == [ts |-> ts, wps |-> w, callback |-> cb, z |-> z,
              geometryOnly |-> geometryOnly, optWaypoints |-> wps]
  IN IF isReady(s.planWps)
     THEN [fire(fire(s1, Ev("routingstart", w, NoRoute)),
                Ev("router.route", w, <<ts, 0>>))
             EXCEPT !.pending = @ \cup {req}]
     ELSE s1

\* _onWaypointsChanged(e)
onWaypointsChanged(s) ==
  LET s1 == IF options.autoRoute THEN route(s, NoWaypoints, FALSE, "default", getZoom) ELSE s
  IN IF ~isReady(s1.planWps)
     THEN LET s2 == clearLines(s1)
          IN IF options.itinerary
             THEN fire([s2 EXCEPT !.itinAlts = <<>>],
                       Ev("waypointschanged", s2.planWps, NoRoute))
             ELSE [s2 EXCEPT !.threw = TRUE]
     ELSE fire(s1, Ev("waypointschanged", s1.planWps, NoRoute))

\* Plan.setWaypoints(wps): the plan takes the waypoints and fires
\* waypointschanged, which reaches _onWaypointsChanged while the control
\* listens.
setWaypoints(s, wps) ==
  LET s1 == [s EXCEPT !.planWps = wps]
  IN IF s1.listening THEN onWaypointsChanged(s1) ELSE s1

\* Mutant: the plan's waypoints are set while the control still listens.
selectRoute_StaysListening(s, r) ==
  LET fit == fitBounds(s)
      alts == IF options.showAlternatives THEN others(s.routes, r) ELSE <<>>
      s1 == updateLines(s, r, alts, options.showAlternatives)
      s2 == IF fit THEN fire(s1, Ev("fitBounds", <<>>, s1.line.route)) ELSE s1
      s3 == IF options.waypointMode = "snap"
            THEN setWaypoints(s2, r.waypoints)
            ELSE s2
  IN fire(s3, Ev("routeselected", <<>>, r.id))

\* _selectRoute(r): every caller in the control passes the route alone.
selectRoute(s, r) ==
  LET fit == fitBounds(s)
      alts == IF options.showAlternatives THEN others(s.routes, r) ELSE <<>>
      s1 == updateLines(s, r, alts, options.showAlternatives)
      s2 == IF fit THEN fire(s1, Ev("fitBounds", <<>>, s1.line.route)) ELSE s1
      s3 == IF options.waypointMode = "snap"
            THEN [setWaypoints([s2 EXCEPT !.listening = FALSE], r.waypoints)
                    EXCEPT !.listening = TRUE]
            ELSE s2
  IN fire(s3, Ev("routeselected", <<>>, r.id))

\* The default callback of a request that is the latest: lines 400-419.
\* setAlternatives of the itinerary shows the routes and selects the first.
showRoutes(s, req, rs) ==
  LET s4 == fire(s, Ev("routesfound", req.wps, NoRoute))
      s5 == [s4 EXCEPT !.routes = rs]
      s6 == IF options.itinerary
            THEN selectRoute([s5 EXCEPT !.itinAlts =
                               [i \in 1..Len(rs) |-> rs[i].id]], rs[1])
            ELSE selectRoute(s5, rs[1])
  IN [s6 EXCEPT !.routeZoom = req.z]

\* Mutant: the error is reported, but _routeZoom is set all the same and
\* _routes is left as it was.
applyResponse_ErrorKeepsRoutes(s, req, err, rs) ==
  LET s1 == clearLines(s)
      s2 == IF options.itinerary THEN [s1 EXCEPT !.itinAlts = <<>>] ELSE s1
  IN IF err
     THEN fire([s2 EXCEPT !.routeZoom = req.z], Ev("routingerror", <<>>, NoRoute))
     ELSE showRoutes([s2 EXCEPT !.routes = <<>>, !.routesDefined = TRUE], req, rs)

\* Mutant: the error branch does not return, and the routes are shown too.
applyResponse_ErrorFallsThrough(s, req, err, rs) ==
  LET s1 == clearLines(s)
      s2 == IF options.itinerary THEN [s1 EXCEPT !.itinAlts = <<>>] ELSE s1
      s3 == [s2 EXCEPT !.routes = <<>>, !.routesDefined = TRUE]
  IN IF err THEN showRoutes(fire(s3, Ev("routingerror", <<>>, NoRoute)), req, rs)
     ELSE showRoutes(s3, req, rs)

applyResponse(s, req, err, rs) ==
  LET s1 == clearLines(s)
      s2 == IF options.itinerary THEN [s1 EXCEPT !.itinAlts = <<>>] ELSE s1
      s3 == [s2 EXCEPT !.routes = <<>>, !.routesDefined = TRUE]
  IN IF err THEN fire(s3, Ev("routingerror", <<>>, NoRoute))
     ELSE showRoutes(s3, req, rs)

\* Mutant: the response is applied whatever the request counter says.
defaultCallback_NoStaleCheck(s, req, err, rs) == applyResponse(s, req, err, rs)

\* The callback route() hands to the router when options.callback is absent.
defaultCallback(s, req, err, rs) ==
  IF req.ts = s.requestCount THEN applyResponse(s, req, err, rs) ELSE s

\* _updateRouteCoordinates(err, routes)
updateRouteCoordinates(s, err, rs) ==
  IF ~err
  THEN IF ~s.routesDefined THEN [s EXCEPT !.threw = TRUE]
       ELSE LET n == IF Len(rs) > Len(s.routes) THEN Len(rs) ELSE Len(s.routes)
                new == [i \in 1..n |->
                         IF i > Len(rs) THEN s.routes[i]
                         ELSE IF i <= Len(s.routes)
                              THEN [s.routes[i] EXCEPT
                                      !.coordinates = rs[i].coordinates]
                              ELSE rs[i]]
                s1 == [s EXCEPT !.routes = new]
            IN updateLines(s1, new[1],
                           IF Len(rs) > 1 THEN Tail(new) ELSE <<>>, TRUE)
  ELSE clearLines(s)

\* ------------------------------------------------------------------ actions
Op(name) == [name |-> name, ts |-> 0, callback |-> "", err |-> FALSE,
             quiet |-> FALSE, threw |-> FALSE, redrag |-> FALSE,
             cancelled |-> FALSE]

\* The control's fields after a handler that ended in s.
Commit(s) ==
  /\ requestCount' = s.requestCount
  /\ routes' = s.routes
  /\ routesDefined' = s.routesDefined
  /\ line' = s.line
  /\ alternatives' = s.alternatives
  /\ mapLayers' = s.mapLayers
  /\ routeZoom' = s.routeZoom
  /\ itinAlts' = s.itinAlts
  /\ planWps' = s.planWps
  /\ listening' = s.listening
  /\ pending' = s.pending
  /\ fired' = s.fired

\* The full requests a handler has sent: those of s that were not pending before.
SentFull(s) == { r.ts : r \in { q \in s.pending \ pending : q.callback = "default" } }

Init ==
  /\ options \in OptionChoices
  /\ pc = "new"
  /\ requestCount = 0
  /\ routes = <<>>
  /\ routesDefined = FALSE
  /\ line = NoLine
  /\ alternatives = <<>>
  /\ mapLayers = EmptyBag
  /\ routeZoom = NoZoom
  /\ itinAlts = <<>>
  /\ planWps \in PlanChoices
  /\ listening = FALSE
  /\ mapZoom = 1
  /\ timer = 0
  /\ waypoints = NoWaypoints
  /\ timeouts = {}
  /\ pending = {}
  /\ fired = <<>>
  /\ op = Op("new")
  /\ lastDrag = NoWaypoints
  /\ firstDrag = NoWaypoints
  /\ quiet = {}
  /\ dragEnd = 0

\* initialize(), from the autoRoute test on: the fields are set, the handlers
\* registered.
Initialize ==
  /\ pc = "new"
  /\ LET s0 == [S EXCEPT !.listening = TRUE]
         s == IF options.autoRoute THEN route(s0, NoWaypoints, FALSE, "default", getZoom) ELSE s0
     IN /\ Commit(s)
        /\ quiet' = SentFull(s)
  /\ pc' = "constructed"
  /\ op' = Op("initialize")
  /\ UNCHANGED <<options, mapZoom, timer, waypoints, timeouts, lastDrag, firstDrag, dragEnd>>

\* onAdd(map): the map is set and zoomend is listened to.
OnAdd ==
  /\ pc = "constructed"
  /\ pc' = "added"
  /\ fired' = <<>>
  /\ op' = Op("onAdd")
  /\ UNCHANGED <<options, listening, requestCount, routes, routesDefined, line, alternatives,
                 mapLayers, routeZoom, itinAlts, planWps, mapZoom, timer,
                 waypoints, timeouts, pending, lastDrag, firstDrag, quiet, dragEnd>>

\* The plan's waypoints are set (setWaypoints, spliceWaypoints, the geocoder)
\* and the plan fires waypointschanged.
WaypointsChanged(w) ==
  /\ pc = "added"
  /\ requestCount < MaxRequests
  /\ LET s == setWaypoints(S, w)
     IN /\ Commit(s)
        /\ quiet' = SentFull(s)
        /\ op' = [Op("waypointschanged") EXCEPT !.threw = s.threw]
  /\ dragEnd' = 0
  /\ UNCHANGED <<options, pc, mapZoom, timer, waypoints, timeouts, lastDrag, firstDrag>>

\* setTimeout: a handle no scheduled timeout has.
NewHandle == CHOOSE h \in 1..(Cardinality(timeouts) + 1) : h \notin timeouts

\* Mutant: the waypoints are kept only by the event that sets the timer.
WaypointDrag_KeepsFirstWaypoints(w) ==
  /\ pc = "added"
  /\ waypoints' = IF timer = 0 THEN w ELSE waypoints
  /\ lastDrag' = w
  /\ firstDrag' = IF timer = 0 THEN w ELSE firstDrag
  /\ IF timer = 0
     THEN /\ timer' = NewHandle
          /\ timeouts' = timeouts \cup {NewHandle}
     ELSE UNCHANGED <<timer, timeouts>>
  /\ fired' = <<>>
  /\ op' = Op("waypointdrag")
  /\ quiet' = {}
  /\ dragEnd' = 0
  /\ UNCHANGED <<options, pc, listening, requestCount, routes, routesDefined, line, alternatives,
                 mapLayers, routeZoom, itinAlts, planWps, mapZoom, pending>>

\* The waypointdrag handler of _setupRouteDragging.
WaypointDrag(w) ==
  /\ pc = "added"
  /\ waypoints' = w
  /\ lastDrag' = w
  /\ firstDrag' = IF timer = 0 THEN w ELSE firstDrag
  /\ IF timer = 0
     THEN /\ timer' = NewHandle
          /\ timeouts' = timeouts \cup {NewHandle}
     ELSE UNCHANGED <<timer, timeouts>>
  /\ fired' = <<>>
  /\ op' = Op("waypointdrag")
  /\ quiet' = {}
  /\ dragEnd' = 0
  /\ UNCHANGED <<options, pc, listening, requestCount, routes, routesDefined, line, alternatives,
                 mapLayers, routeZoom, itinAlts, planWps, mapZoom, pending>>

\* The timeout scheduled by the waypointdrag handler fires.
DragTimer(h) ==
  /\ pc = "added"
  /\ h \in timeouts
  /\ requestCount < MaxRequests
  /\ LET s == route(S, waypoints, TRUE, "updateRouteCoordinates", getZoom)
     IN Commit(s)
  /\ timer' = 0
  /\ timeouts' = timeouts \ {h}
  /\ op' = [Op("dragtimer") EXCEPT !.ts = requestCount + 1,
                                   !.redrag = (firstDrag # lastDrag)]
  /\ firstDrag' = NoWaypoints
  /\ quiet' = {}
  /\ dragEnd' = 0
  /\ UNCHANGED <<options, pc, mapZoom, waypoints, lastDrag>>

\* Mutant: the timer variable is reset, the timeout is not cleared.
WaypointDragEnd_TimeoutNotCleared ==
  /\ pc = "added"
  /\ requestCount < MaxRequests
  /\ timer' = 0
  /\ timeouts' = timeouts
  /\ LET s == route(S, NoWaypoints, FALSE, "default", getZoom)
     IN /\ Commit(s)
        /\ quiet' = SentFull(s)
        /\ dragEnd' = 0
  /\ op' = [Op("waypointdragend") EXCEPT !.ts = requestCount + 1,
                                         !.cancelled = (timeouts # {})]
  /\ firstDrag' = NoWaypoints
  /\ UNCHANGED <<options, pc, mapZoom, waypoints, lastDrag>>

\* The waypointdragend handler of _setupRouteDragging.
WaypointDragEnd ==
  /\ pc = "added"
  /\ requestCount < MaxRequests
  /\ IF timer # 0
     THEN /\ timeouts' = timeouts \ {timer}
          /\ timer' = 0
     ELSE UNCHANGED <<timer, timeouts>>
  /\ LET s == route(S, NoWaypoints, FALSE, "default", getZoom)
     IN /\ Commit(s)
        /\ quiet' = SentFull(s)
        /\ dragEnd' = IF SentFull(s) # {} /\ \A r \in pending :
                                               r.geometryOnly => r.optWaypoints # NoWaypoints
                      THEN s.requestCount ELSE 0
  /\ op' = [Op("waypointdragend") EXCEPT !.ts = requestCount + 1,
                                         !.cancelled = (timeouts # {})]
  /\ firstDrag' = NoWaypoints
  /\ UNCHANGED <<options, pc, mapZoom, waypoints, lastDrag>>

\* The map ends a zoom to level z: the zoomend handler of onAdd.
Zoomend(z) ==
  /\ pc = "added"
  /\ z # mapZoom
  /\ requestCount < MaxRequests
  /\ mapZoom' = z
  /\ LET s == IF routeZoom # z
              THEN route(S, NoWaypoints, TRUE, "updateRouteCoordinates", z)
              ELSE S
     IN Commit(s)
  /\ op' = [Op("zoomend") EXCEPT !.ts = IF routeZoom # z THEN requestCount + 1 ELSE 0]
  /\ dragEnd' = 0
  /\ UNCHANGED <<options, pc, timer, waypoints, timeouts, lastDrag, firstDrag, quiet>>

\* The router answers request req: with an error, or with n routes.
Respond(req, err, n) ==
  /\ pc = "added"
  /\ req \in pending
  /\ LET s0 == [S EXCEPT !.pending = @ \ {req}]
         rs == Response(req, n)
         s == IF req.callback = "default"
              THEN defaultCallback(s0, req, err, rs)
              ELSE updateRouteCoordinates(s0, err, rs)
     IN /\ Commit(s)
        /\ op' = [Op("response") EXCEPT !.ts = req.ts, !.callback = req.callback,
                    !.err = err, !.quiet = (req.ts \in quiet), !.threw = s.threw]
  /\ quiet' = quiet \ {req.ts}
  /\ UNCHANGED <<options, pc, mapZoom, timer, waypoints, timeouts,
                 lastDrag, firstDrag, dragEnd>>

\* The route object of _routes with identity id.
RouteById(id) == CHOOSE r \in {routes[i] : i \in 1..Len(routes)} : r.id = id
HasRoute(id) == \E i \in 1..Len(routes) : routes[i].id = id

\* The user picks alternative i in the itinerary: the itinerary fires
\* routeselected and _routeSelected selects the route.
ItinerarySelect(i) ==
  /\ pc = "added"
  /\ options.itinerary
  /\ i \in 1..Len(itinAlts)
  /\ HasRoute(itinAlts[i])
  /\ Commit(selectRoute(S, RouteById(itinAlts[i])))
  /\ op' = Op("routeselected")
  /\ dragEnd' = 0
  /\ UNCHANGED <<options, pc, mapZoom, timer, waypoints, timeouts,
                 lastDrag, firstDrag, quiet>>

\* The user touches alternative line k: the linetouched handler of
\* _hookAltEvents selects the line's route, and selects it again, through
\* the itinerary when there is one.
AltLineTouched(k) ==
  /\ pc = "added"
  /\ k \in 1..Len(alternatives)
  /\ HasRoute(alternatives[k].route)
  /\ LET r == RouteById(alternatives[k].route)
     IN Commit(selectRoute(selectRoute(S, r), r))
  /\ op' = Op("linetouched")
  /\ dragEnd' = 0
  /\ UNCHANGED <<options, pc, mapZoom, timer, waypoints, timeouts,
                 lastDrag, firstDrag, quiet>>

Next ==
  \/ Initialize
  \/ OnAdd
  \/ \E w \in PlanChoices : WaypointsChanged(w)
  \/ \E w \in DragChoices : WaypointDrag(w)
  \/ \E h \in timeouts : DragTimer(h)
  \/ WaypointDragEnd
  \/ \E z \in 1..MaxZoom : Zoomend(z)
  \/ \E req \in pending, err \in BOOLEAN, n \in 1..MaxRoutes : Respond(req, err, n)
  \/ \E i \in 1..MaxRoutes : ItinerarySelect(i)
  \/ \E k \in 1..MaxRoutes : AltLineTouched(k)

Spec == Init /\ [][Next]_vars

\* ------------------------------------------------------------------ claims
\* What the formulas below read from the log of the last handler.
Types(f) == {f[i].type : i \in 1..Len(f)}
Count(f, types) == Cardinality({i \in 1..Len(f) : f[i].type \in types})
RouteCalls(f) == Count(f, {"route", "route.geometryOnly"})

\* A step in which the router delivers a response.
IsResponse(o) == o.name = "response"

\* C1: only the response to the most recently issued request is applied: the
\* delivery of a response to any earlier request, of a full request or of a
\* geometry-only one, changes neither _routes nor the lines on the map.
C1_OnlyLatestResponseApplied ==
  [][(IsResponse(op') /\ op'.ts # requestCount)
       => (/\ routes' = routes
           /\ routesDefined' = routesDefined
           /\ line' = line
           /\ alternatives' = alternatives
           /\ mapLayers' = mapLayers)]_vars

\* C2: _requestCount starts at 0, every call of route() adds exactly 1 to it,
\* with the plan ready or not and with any callback, and a handler that does
\* not call route() leaves it unchanged.
C2_RequestCountCountsRouteCalls ==
  /\ requestCount = 0
  /\ [][requestCount' = requestCount + RouteCalls(fired')]_vars

\* C2's case: route() was called with a custom callback on a plan that is not
\* ready, and the counter has moved.
C2_Witness ==
  /\ "route.geometryOnly" \in Types(fired)
  /\ ~isReady(planWps)
  /\ requestCount > 1

\* C8: a response delivered to the default callback of a request that is no
\* longer the latest changes nothing and fires nothing, be it a success or
\* an error.
C8_StaleDefaultResponseIgnored ==
  [][(IsResponse(op') /\ op'.callback = "default" /\ op'.ts # requestCount)
       => (/\ UNCHANGED <<routes, routesDefined, line, alternatives, mapLayers,
                          itinAlts, routeZoom, planWps, requestCount>>
           /\ fired' = <<>>)]_vars

\* C8's case: a stale error response reached the default callback while
\* routes and lines were shown.
C8_Witness ==
  /\ IsResponse(op) /\ op.callback = "default" /\ op.ts # requestCount /\ op.err
  /\ line # NoLine /\ Len(alternatives) > 0 /\ Len(itinAlts) > 0

\* C9: an error response to the latest full request leaves no line on the
\* map, no alternative in the itinerary and an empty _routes, fires
\* routingerror once and nothing else, and keeps _routeZoom.
C9_ErrorClearsRoutes ==
  [][(IsResponse(op') /\ op'.callback = "default" /\ op'.ts = requestCount /\ op'.err)
       => (/\ line' = NoLine
           /\ alternatives' = <<>>
           /\ mapLayers' = EmptyBag
           /\ itinAlts' = <<>>
           /\ routesDefined' /\ routes' = <<>>
           /\ Count(fired', {"routingerror"}) = 1
           /\ Len(fired') = 1
           /\ routeZoom' = routeZoom)]_vars

\* C9's case: the error arrived after an earlier response had set _routeZoom.
C9_Witness ==
  /\ IsResponse(op) /\ op.callback = "default" /\ op.ts = requestCount /\ op.err
  /\ routeZoom # NoZoom /\ routesDefined /\ routes = <<>>

\* C10: the response to a full request since whose issue no waypoint change
\* and no drag occurred fires routesfound or routingerror, zoomend events
\* in between or not.
C10_FullRequestAnswered ==
  (IsResponse(op) /\ op.callback = "default" /\ op.quiet)
    => Count(fired, {"routesfound", "routingerror"}) = 1

\* The requests a handler has sent.
Sent == pending' \ pending

\* C3: at most one drag timer is pending at any time; a waypointdrag event
\* neither calls route() nor sets a second timer; and the firing of the timer
\* makes exactly one call of route(), geometry-only with the callback
\* _updateRouteCoordinates, carrying the waypoints of the most recent
\* waypointdrag event: the one request it sends if the plan is ready.
C3_DragDebounced ==
  [][/\ Cardinality(timeouts') <= 1
     /\ op'.name = "waypointdrag"
          => (RouteCalls(fired') = 0 /\ Sent = {} /\ (timer # 0 => timeouts' = timeouts))
     /\ op'.name = "dragtimer"
          => (/\ RouteCalls(fired') = 1
              /\ fired'[1] = Ev("route.geometryOnly", lastDrag, NoRoute)
              /\ timeouts' = {} /\ timer' = 0
              /\ IF isReady(planWps)
                 THEN \E r \in Sent :
                        /\ Sent = {r}
                        /\ r.geometryOnly /\ r.callback = "updateRouteCoordinates"
                        /\ r.wps = lastDrag /\ r.ts = requestCount'
                 ELSE Sent = {})]_vars

\* C3's case: the timer fired after a later waypointdrag event had brought
\* other waypoints than the event that set it, and its request is pending.
C3_Witness ==
  /\ op.name = "dragtimer" /\ op.redrag
  /\ \E r \in pending : r.ts = requestCount /\ r.geometryOnly /\ r.wps = lastDrag

\* C4: waypointdragend clears the pending drag timer and makes exactly one
\* call of route(), full (default callback, the plan's waypoints): the one
\* request it sends if the plan is ready; and no drag timer fires after it
\* until a new waypointdrag event has set one.
C4_DragEndRoutesOnce ==
  [][/\ op'.name = "waypointdragend"
          => (/\ timeouts' = {} /\ timer' = 0
              /\ RouteCalls(fired') = 1
              /\ fired'[1] = Ev("route", NoWaypoints, NoRoute)
              /\ IF isReady(planWps)
                 THEN \E r \in Sent :
                        /\ Sent = {r}
                        /\ ~r.geometryOnly /\ r.callback = "default"
                        /\ r.wps = planWps /\ r.ts = requestCount'
                 ELSE Sent = {})
     /\ (timeouts = {} /\ op'.name # "waypointdrag") => timeouts' = {}
     /\ op'.name = "dragtimer" => timeouts # {}]_vars

\* C4's case: waypointdragend arrived while a drag timer was pending, and
\* sent its full request.
C4_Witness ==
  /\ op.name = "waypointdragend" /\ op.cancelled /\ timeouts = {}
  /\ \E r \in pending : r.ts = requestCount /\ r.callback = "default" /\ r.wps = planWps

\* C5: when a drag has ended and every outstanding response has been
\* delivered, the main line and _routes hold the coordinates of the response
\* to the full request of the waypointdragend.
C5_RoutesOfFinalRequest ==
  (dragEnd # 0 /\ pending = {})
    => (/\ line # NoLine => line.coordinates[1] = dragEnd
        /\ \A i \in 1..Len(routes) : routes[i].coordinates[1] = dragEnd)

\* For each routeselected of a log, in order: whether fitBounds was called
\* for that selection.
RECURSIVE FitsOf(_, _)
FitsOf(f, fit) ==
  IF f = <<>> THEN <<>>
  ELSE IF Head(f).type = "fitBounds" THEN FitsOf(Tail(f), TRUE)
  ELSE IF Head(f).type = "routeselected" THEN <<fit>> \o FitsOf(Tail(f), FALSE)
  ELSE FitsOf(Tail(f), fit)

\* The waypoints that have a position.
Positioned(wps) == {i \in 1..Len(wps) : wps[i] # NoLatLng}
NoneInViewport(wps) == \A i \in Positioned(wps) : ~Contains(wps[i])
Extent(wps, c) ==
  LET vs == {wps[i][c] : i \in Positioned(wps)}
  IN IF vs = {} THEN 0
     ELSE (CHOOSE m \in vs : \A v \in vs : v <= m)
            - (CHOOSE m \in vs : \A v \in vs : m <= v)
BoxWithinFifth(wps) ==
  5 * Extent(wps, 1) <= MapSizeX /\ 5 * Extent(wps, 2) <= MapSizeY

\* The waypoints of the plan at the k-th selection of a step: only the snap
\* of an earlier selection of the same handler changes them.
WaypointsAt(k) == IF k = 1 THEN planWps ELSE planWps'

LastSelected(f) ==
  f[CHOOSE i \in 1..Len(f) :
      /\ f[i].type = "routeselected"
      /\ \A j \in (i + 1)..Len(f) : f[j].type # "routeselected"].route

C11_NoLinesWhileNotReady ==
  (pc = "added" /\ ~isReady(planWps))
    => (line = NoLine /\ alternatives = <<>> /\ mapLayers = EmptyBag)

\* Whether entry i of a log is a call of route().
IsRouteCall(f, i) == f[i].type \in {"route", "route.geometryOnly"}

\* The first half of C12: a call of route() sends a request exactly if the
\* plan is ready at the call (the handlers that call route() leave the plan
\* as it is at the call); a request sent directly follows one routingstart
\* with the same waypoints, which directly follows the call; and routingstart
\* is fired for no other reason.
C12_RouteSendsIffReady ==
  [][LET f == fired'
     IN /\ \A i \in 1..Len(f) :
             /\ IsRouteCall(f, i) =>
                  IF isReady(planWps')
                  THEN /\ i + 2 <= Len(f)
                       /\ f[i + 1].type = "routingstart"
                       /\ f[i + 2].type = "router.route"
                  ELSE i = Len(f) \/ f[i + 1].type \notin {"routingstart", "router.route"}
             /\ f[i].type = "router.route" =>
                  /\ i > 2
                  /\ f[i - 1].type = "routingstart"
                  /\ f[i - 1].waypoints = f[i].waypoints
                  /\ IsRouteCall(f, i - 2)
                  /\ \E r \in Sent : r.ts = f[i].route[1] /\ r.wps = f[i].waypoints
             /\ f[i].type = "routingstart" =>
                  i < Len(f) /\ f[i + 1].type = "router.route"
        /\ Cardinality(Sent) = Count(f, {"router.route"})]_vars

\* The second half of C12: the handling of the plan's waypointschanged calls
\* route() only with autoRoute, and fires the control's waypointschanged in
\* every case.
C12_WaypointsChangedRefired ==
  [][op'.name = "waypointschanged"
       => (/\ RouteCalls(fired') > 0 => options.autoRoute
           /\ Count(fired', {"waypointschanged"}) = 1)]_vars

\* C12: route() sends a request, directly after one routingstart with the
\* same waypoints, exactly if the plan is ready at the call; and a
\* waypointschanged of the plan makes a route request only with autoRoute and
\* is passed on as the control's waypointschanged in every case.
C12_RoutingStartAndWaypointsChanged ==
  C12_RouteSendsIffReady /\ C12_WaypointsChangedRefired

\* C13: the router calling each callback at most once, a handler fires at
\* most one of routesfound and routingerror, and only as the default callback
\* of a request that was pending and is pending no more; a request carries
\* the new value of the counter, which no earlier request has, and is sent
\* directly after the routingstart of its call, in a handler that fires
\* neither event; and the delivery to a custom callback fires neither.
C13_OneOutcomePerCall ==
  [][LET f == fired'
         outcomes == Count(f, {"routesfound", "routingerror"})
     IN /\ outcomes <= 1
        /\ outcomes = 1 =>
             /\ IsResponse(op') /\ op'.callback = "default"
             /\ \E r \in pending \ pending' : r.ts = op'.ts /\ r.callback = "default"
             /\ \A r \in pending' : r.ts # op'.ts
        /\ (IsResponse(op') /\ op'.callback # "default") => outcomes = 0
        /\ \A r \in pending : r.ts <= requestCount
        /\ \A r \in Sent :
             /\ r.ts = requestCount' /\ r.ts > requestCount
             /\ outcomes = 0
             /\ \E i \in 1..(Len(f) - 1) :
                  /\ f[i].type = "routingstart"
                  /\ f[i + 1].type = "router.route" /\ f[i + 1].route[1] = r.ts]_vars

\* C13's case: the default callback of the latest request fired routesfound
\* while a geometry-only request was still outstanding.
C13_Witness ==
  /\ IsResponse(op) /\ op.callback = "default"
  /\ Count(fired, {"routesfound"}) = 1
  /\ \A r \in pending : r.ts # op.ts
  /\ \E r \in pending : r.callback = "updateRouteCoordinates"

\* C14: in waypointMode "snap" a handler that selects a route leaves the
\* plan with the waypoints of the selected route, calls route() for no
\* request, leaves _requestCount as it is and fires no waypointschanged of
\* the control; the control listens to the plan after it, and the handling of
\* a waypoint change of the plan calls route() once when autoRoute is set.
C14_SnapSelectsWithoutRouting ==
  [][/\ (options.waypointMode = "snap" /\ "routeselected" \in Types(fired'))
          => (/\ \E i \in 1..Len(routes') :
                   /\ routes'[i].id = LastSelected(fired')
                   /\ planWps' = routes'[i].waypoints
              /\ RouteCalls(fired') = 0
              /\ Sent = {}
              /\ requestCount' = requestCount
              /\ Count(fired', {"waypointschanged", "routingstart", "router.route"}) = 0
              /\ listening')
     /\ pc' # "new" => listening'
     /\ (op'.name = "waypointschanged" /\ options.autoRoute)
          => RouteCalls(fired') = 1]_vars

\* C14's case: in "snap" mode the user selected a route of an earlier
\* response while the latest request, made for other waypoints, is still
\* outstanding: the plan has the selected route's waypoints again, and the
\* counter is that of the outstanding request.
C14_Witness ==
  /\ options.waypointMode = "snap" /\ options.autoRoute
  /\ op.name \in {"routeselected", "linetouched"}
  /\ "routeselected" \in Types(fired)
  /\ \E r \in pending : r.ts = requestCount /\ ~r.geometryOnly /\ r.wps # planWps

\* The lines of a sequence as a bag: each with the number of its occurrences.
BagOfLines(ls) ==
  [l \in {ls[i] : i \in 1..Len(ls)} |-> Cardinality({i \in 1..Len(ls) : ls[i] = l})]

\* C15: in every state the route layers on the map are exactly the main
\* line, if there is one, and the alternative lines, each once.
C15_MapShowsCurrentLines ==
  mapLayers = BagOfLines((IF line # NoLine THEN <<line>> ELSE <<>>) \o alternatives)

\* C15's case: a geometry-only response has redrawn the main line and an
\* alternative line over those of an earlier selection.
C15_Witness ==
  /\ IsResponse(op) /\ op.callback = "updateRouteCoordinates" /\ ~op.err /\ ~op.threw
  /\ line # NoLine /\ Len(alternatives) > 0
  /\ line.coordinates # line.route

====
